---- MODULE Spec2Model ----
(***************************************************************************)
(* A model of lib/Utils.js of react-taco-table: the cell accessor, the     *)
(* sort-key deriver, the column lookup, the comparator factory, sortData   *)
(* and validateColumns.  JavaScript values are modelled with the           *)
(* conversions the comparators apply to them (parseFloat, String,          *)
(* toLowerCase, localeCompare, <, ===), arrays as named heap objects so    *)
(* that in-place operations (sort, reverse) are visible, and the host's    *)
(* Array.prototype.sort as one of several sorting algorithms.              *)
(***************************************************************************)
EXTENDS Integers, Sequences, FiniteSets

VARIABLES
    engine,     \* the host's Array.prototype.sort algorithm
    input,      \* the row collection as the caller built it (history)
    arrays,     \* the heap of arrays: arrays.data, arrays.sortedData
    pc,         \* "idle" | "returned" | "thrown"
    call,       \* the arguments of the last call
    result,     \* the name of the array the last call returned
    warnings,   \* what console.warn received during the last call
    invoked     \* the callbacks invoked during the last call, in order

vars == <<engine, input, arrays, pc, call, result, warnings, invoked>>

(***************************************************************************)
(* Bounds of the model.                                                    *)
(***************************************************************************)
MaxRows == 3

MaxMixedRows == 4

MaxCols == 3

(***************************************************************************)
(* Sequences.                                                              *)
(***************************************************************************)
SeqsUpTo(S, n) == UNION {[1..k -> S] : k \in 0..n}

Reverse(s) == [i \in 1..Len(s) |-> s[Len(s) + 1 - i]]

Front(s) == SubSeq(s, 1, Len(s) - 1)

Last(s) == s[Len(s)]

Swap(s, i, j) == [s EXCEPT ![i] = s[j], ![j] = s[i]]

(***************************************************************************)
(* JavaScript values: undefined, null, numbers (integers and NaN) and      *)
(* strings (sequences of characters).                                      *)
(***************************************************************************)
Undefined == [t |-> "undefined", n |-> 0, s |-> <<>>]

Null == [t |-> "null", n |-> 0, s |-> <<>>]

NaN == [t |-> "NaN", n |-> 0, s |-> <<>>]

Num(n) == [t |-> "number", n |-> n, s |-> <<>>]

Str(s) == [t |-> "string", n |-> 0, s |-> s]

\* v == null
IsNullish(v) == v.t \in {"null", "undefined"}

\* The characters of the model in code-unit order.
Alphabet ==
    <<"-", "0", "1", "2", "3", "4", "5", "6", "7", "8", "9",
      "A", "N", "a", "d", "e", "f", "i", "l", "n", "u">>

Digits == <<"0", "1", "2", "3", "4", "5", "6", "7", "8", "9">>

IndexIn(seq, c) == CHOOSE i \in 1..Len(seq) : seq[i] = c

IsDigit(c) == \E i \in 1..Len(Digits) : Digits[i] = c

DigitValue(c) == IndexIn(Digits, c) - 1

\* The order of two characters as UTF-16 code units.
CodeUnit(c) == IndexIn(Alphabet, c)

\* String.prototype.toLowerCase, character by character.
LowerChar(c) == CASE c = "A" -> "a" [] c = "N" -> "n" [] OTHER -> c

ToLowerCase(s) == [i \in 1..Len(s) |-> LowerChar(s[i])]

\* Number to decimal digits (Number::toString for integers).
RECURSIVE NatToChars(_)
NatToChars(n) ==
    IF n < 10 THEN <<Digits[n + 1]>>
    ELSE Append(NatToChars(n \div 10), Digits[(n % 10) + 1])

\* String(v)
StringOf(v) ==
    CASE v.t = "string" -> v.s
      [] v.t = "number" -> IF v.n < 0 THEN <<"-">> \o NatToChars(-v.n)
                           ELSE NatToChars(v.n)
      [] v.t = "NaN" -> <<"N", "a", "N">>
      [] v.t = "null" -> <<"n", "u", "l", "l">>
      [] OTHER -> <<"u", "n", "d", "e", "f", "i", "n", "e", "d">>

\* The longest prefix of s made of decimal digits.
RECURSIVE DigitPrefix(_)
DigitPrefix(s) ==
    IF s = <<>> \/ ~IsDigit(Head(s)) THEN <<>>
    ELSE <<Head(s)>> \o DigitPrefix(Tail(s))

RECURSIVE DigitsValue(_)
DigitsValue(s) ==
    IF s = <<>> THEN 0
    ELSE 10 * DigitsValue(Front(s)) + DigitValue(Last(s))

\* parseFloat(v): String(v), then the longest numeric prefix (an optional
\* sign and decimal digits here), NaN when there is none.
NumberOfDigits(p, sign) == IF Len(p) = 0 THEN NaN ELSE Num(sign * DigitsValue(p))

ParseFloatOfString(str) ==
    IF Len(str) > 0 /\ Head(str) = "-"
    THEN NumberOfDigits(DigitPrefix(Tail(str)), -1)
    ELSE NumberOfDigits(DigitPrefix(str), 1)

ParseFloat(v) == ParseFloatOfString(StringOf(v))

\* The number a whole string denotes: "" is 0, a numeral its value, any
\* other string NaN.
NumeralValue(body, sign) ==
    IF Len(body) > 0 /\ DigitPrefix(body) = body
    THEN Num(sign * DigitsValue(body))
    ELSE NaN

StringToNumber(str) ==
    IF Len(str) = 0 THEN Num(0)
    ELSE IF Head(str) = "-" THEN NumeralValue(Tail(str), -1)
    ELSE NumeralValue(str, 1)

\* ToNumber(v)
ToNumber(v) ==
    CASE v.t = "number" -> v
      [] v.t = "NaN" -> NaN
      [] v.t = "null" -> Num(0)
      [] v.t = "undefined" -> NaN
      [] OTHER -> StringToNumber(v.s)

\* x - y on numbers
Minus(x, y) == IF x.t = "NaN" \/ y.t = "NaN" THEN NaN ELSE Num(x.n - y.n)

\* The lexicographic order of two sequences of integers: -1, 0 or 1.
RECURSIVE SeqCompare(_, _)
SeqCompare(s, u) ==
    IF s = <<>> THEN (IF u = <<>> THEN 0 ELSE -1)
    ELSE IF u = <<>> THEN 1
    ELSE IF Head(s) < Head(u) THEN -1
    ELSE IF Head(s) > Head(u) THEN 1
    ELSE SeqCompare(Tail(s), Tail(u))

\* The order of two strings by code units: -1, 0 or 1.
CodeUnitCompare(s, u) ==
    SeqCompare([i \in 1..Len(s) |-> CodeUnit(s[i])],
               [i \in 1..Len(u) |-> CodeUnit(u[i])])

\* x < y on numbers: false when either is NaN
NumberLess(x, y) == x.t # "NaN" /\ y.t # "NaN" /\ x.n < y.n

\* a < b (the abstract relational comparison on primitives)
JSLess(a, b) ==
    IF a.t = "string" /\ b.t = "string" THEN CodeUnitCompare(a.s, b.s) < 0
    ELSE NumberLess(ToNumber(a), ToNumber(b))

\* a === b
StrictEquals(a, b) == a.t = b.t /\ a.t # "NaN" /\ a = b

\* The collation of the model's characters: punctuation, digits, letters in
\* alphabetical order; a letter's case is a lower-level difference, lower
\* case first.
Collation == <<"-", "0", "1", "2", "3", "4", "5", "6", "7", "8", "9",
               "a", "d", "e", "f", "i", "l", "n", "u">>

PrimaryWeight(c) == IndexIn(Collation, LowerChar(c))

CaseWeight(c) == IF LowerChar(c) = c THEN 0 ELSE 1

\* String.prototype.localeCompare: -1, 0 or 1
FirstDifference(primary, case) == IF primary # 0 THEN primary ELSE case

LocaleCompare(s, u) ==
    FirstDifference(
        SeqCompare([i \in 1..Len(s) |-> PrimaryWeight(s[i])],
                   [i \in 1..Len(u) |-> PrimaryWeight(u[i])]),
        SeqCompare([i \in 1..Len(s) |-> CaseWeight(s[i])],
                   [i \in 1..Len(u) |-> CaseWeight(u[i])]))

(***************************************************************************)
(* The enumerations of ./DataType and ./SortDirection, as far as Utils.js  *)
(* names their members.  Any type that is neither Number, NumberOrdinal    *)
(* nor String takes the comparator factory's default branch.               *)
(***************************************************************************)
DataType == [Number |-> "Number", NumberOrdinal |-> "NumberOrdinal",
             String |-> "String", None |-> "None"]

SortDirection == [Ascending |-> "Ascending", Descending |-> "Descending"]

\* A property that is not set on a column definition.
NotSet == "undefined"

(***************************************************************************)
(* Row records and column definitions.  A row record is an object with an  *)
(* identity (ref) and keyed fields; reading a key it does not have gives   *)
(* undefined.                                                              *)
(***************************************************************************)
\* rowData[key]
Get(rowData, key) ==
    IF key \in DOMAIN rowData.fields THEN rowData.fields[key] ELSE Undefined

\* The caller's `value` functions: value(rowData, rowNumber, tableData, columns).
CallValue(fn, rowData, rowNumber, tableData, columns) ==
    CASE fn = "reverseIndex" -> Num(Len(tableData) - rowNumber)
      [] OTHER -> Get(rowData, "a")

\* The caller's `sortValue` functions: sortValue(cellData, rowData).
CallSortValue(fn, cellData, rowData) ==
    CASE fn = "negate" ->
           IF cellData.t = "number" THEN Num(-cellData.n) ELSE cellData
      [] OTHER -> cellData

getCellData(column, rowData, rowNumber, tableData, columns) ==
    IF column.value.kind = "function"
    THEN CallValue(column.value.name, rowData, rowNumber, tableData, columns)
    ELSE IF column.value.kind = "key"
         THEN Get(rowData, column.value.name)
         ELSE Get(rowData, column.id)

\* The cell data taken for the sort value whatever the column says.
getCellDataAsSortValue(cellData, column, rowData) == cellData

getSortValueFromCellData(cellData, column, rowData) ==
    IF column.sortValue.kind = "function"
    THEN CallSortValue(column.sortValue.name, cellData, rowData)
    ELSE cellData

getSortValue(column, rowData, rowNumber, tableData, columns) ==
    getSortValueFromCellData(
        getCellData(column, rowData, rowNumber, tableData, columns),
        column, rowData)

\* The callbacks one getSortValue call invokes, in order.
CallbacksOf(column, rowNumber) ==
    (IF column.value.kind = "function"
     THEN <<[fn |-> column.value.name, rowNumber |-> rowNumber]>> ELSE <<>>)
    \o (IF column.sortValue.kind = "function"
        THEN <<[fn |-> column.sortValue.name, rowNumber |-> rowNumber]>>
        ELSE <<>>)

\* A lookup that falls back to the first column.
getColumnByIdOrFirst(columns, columnId) ==
    IF columns = <<>> THEN <<>>
    ELSE IF \E k \in 1..Len(columns) : columns[k].id = columnId
         THEN <<columns[CHOOSE k \in 1..Len(columns) :
                          /\ columns[k].id = columnId
                          /\ \A m \in 1..(k - 1) : columns[m].id # columnId]>>
         ELSE <<columns[1]>>

\* columns.find(column => column.id === columnId): <<>> stands for undefined,
\* <<column>> for a column found.
RECURSIVE getColumnById(_, _)
getColumnById(columns, columnId) ==
    IF columns = <<>> THEN <<>>
    ELSE IF Head(columns).id = columnId THEN <<Head(columns)>>
    ELSE getColumnById(Tail(columns), columnId)

(***************************************************************************)
(* The comparators, over sort items [rowData, index, sortValue].  Each     *)
(* returns a JavaScript number, which may be NaN.                          *)
(***************************************************************************)
\* The difference returned without a look at the indices.
NumberDifference(difference, a, b) == difference

\* if (difference === 0) return a.index - b.index; return difference
NumberTieBreak(difference, a, b) ==
    IF StrictEquals(difference, Num(0)) THEN Num(a.index - b.index)
    ELSE difference

\* Nulls put first, as the other comparators put them.
numberComparatorNullsFirst(a, b) ==
    IF IsNullish(a.sortValue) /\ IsNullish(b.sortValue)
    THEN Num(a.index - b.index)
    ELSE IF IsNullish(a.sortValue) THEN Num(-1)
    ELSE IF IsNullish(b.sortValue) THEN Num(1)
    ELSE NumberTieBreak(
             Minus(ParseFloat(a.sortValue), ParseFloat(b.sortValue)), a, b)

numberComparator(a, b) ==
    IF IsNullish(a.sortValue) /\ IsNullish(b.sortValue)
    THEN Num(a.index - b.index)
    ELSE IF IsNullish(a.sortValue) THEN Num(1)
    ELSE IF IsNullish(b.sortValue) THEN Num(-1)
    ELSE NumberTieBreak(
             Minus(ParseFloat(a.sortValue), ParseFloat(b.sortValue)), a, b)

\* The result of localeCompare returned without a look at the indices.
StringResult(res, a, b) == Num(res)

\* if (result === 0) return a.index - b.index; return result
StringTieBreak(res, a, b) ==
    IF res = 0 THEN Num(a.index - b.index) ELSE Num(res)

stringComparator(a, b) ==
    IF IsNullish(a.sortValue) /\ IsNullish(b.sortValue)
    THEN Num(a.index - b.index)
    ELSE IF IsNullish(a.sortValue) THEN Num(-1)
    ELSE IF IsNullish(b.sortValue) THEN Num(1)
    ELSE StringTieBreak(
             LocaleCompare(ToLowerCase(StringOf(a.sortValue)),
                           ToLowerCase(StringOf(b.sortValue))), a, b)

defaultComparator(a, b) ==
    IF IsNullish(a.sortValue) /\ IsNullish(b.sortValue)
    THEN Num(a.index - b.index)
    ELSE IF IsNullish(a.sortValue) THEN Num(-1)
    ELSE IF IsNullish(b.sortValue) THEN Num(1)
    ELSE IF StrictEquals(a.sortValue, b.sortValue)
         THEN Num(a.index - b.index)
         ELSE IF JSLess(a.sortValue, b.sortValue) THEN Num(-1) ELSE Num(1)

\* The comparator the factory returns for a type, by name.
getSortComparator(type) ==
    CASE type = DataType.Number -> "numberComparator"
      [] type = DataType.NumberOrdinal -> "numberComparator"
      [] type = DataType.String -> "stringComparator"
      [] OTHER -> "defaultComparator"

\* comparator(a, b)
Apply(comparator, a, b) ==
    CASE comparator = "numberComparator" -> numberComparator(a, b)
      [] comparator = "stringComparator" -> stringComparator(a, b)
      [] OTHER -> defaultComparator(a, b)

(***************************************************************************)
(* The host's Array.prototype.sort.  A comparator result of NaN counts as  *)
(* 0.  Two algorithms stand for "any correct sorting algorithm": the       *)
(* binary insertion sort behind a leading run that stable engines use for  *)
(* short arrays, and a selection sort, which is not stable.                *)
(***************************************************************************)
Engines == {"binaryInsertion", "selection"}

\* What the algorithm sees of comparator(x, y): NaN counts as 0.
NaNToZero(v) == IF v.t = "NaN" THEN 0 ELSE v.n

SortCompare(comparator, x, y) == NaNToZero(Apply(comparator, x, y))

\* The comparator's results on the items of a, by the items' places in a.
CompareTable(comparator, a) ==
    [i \in 1..Len(a) |->
        [j \in 1..Len(a) |-> SortCompare(comparator, a[i], a[j])]]

\* The result for two sort items of the array the table was made of (an
\* item's index is its place in that array, counted from 0).
Cmp(table, x, y) == table[x.index + 1][y.index + 1]

\* Selection: the first least element of a[i..] is swapped into place i.
RECURSIVE MinFrom(_, _, _, _)
MinFrom(table, a, min, j) ==
    IF j > Len(a) THEN min
    ELSE MinFrom(table, a,
                 IF Cmp(table, a[j], a[min]) < 0 THEN j ELSE min, j + 1)

RECURSIVE SelectionFrom(_, _, _)
SelectionFrom(table, a, i) ==
    IF i >= Len(a) THEN a
    ELSE SelectionFrom(table, Swap(a, i, MinFrom(table, a, i, i + 1)), i + 1)

SelectionSort(table, a) == SelectionFrom(table, a, 1)

\* Binary insertion after the leading run: the length of the run that
\* starts the array (a strictly descending run is reversed in place).
RECURSIVE RunEnd(_, _, _, _)
RunEnd(table, a, descending, k) ==
    IF k >= Len(a) THEN k
    ELSE LET order == Cmp(table, a[k + 1], a[k])
         IN IF (descending /\ order >= 0) \/ (~descending /\ order < 0)
            THEN k
            ELSE RunEnd(table, a, descending, k + 1)

\* The place (the count of elements before it) where pivot goes in s.
RECURSIVE BinarySearch(_, _, _, _, _)
BinarySearch(table, s, pivot, left, right) ==
    IF left >= right THEN left
    ELSE LET mid == left + ((right - left) \div 2)
         IN IF Cmp(table, pivot, s[mid + 1]) < 0
            THEN BinarySearch(table, s, pivot, left, mid)
            ELSE BinarySearch(table, s, pivot, mid + 1, right)

RECURSIVE BinaryInsertFrom(_, _, _)
BinaryInsertFrom(table, a, start) ==
    IF start > Len(a) THEN a
    ELSE LET s == SubSeq(a, 1, start - 1)
             p == BinarySearch(table, s, a[start], 0, start - 1)
         IN BinaryInsertFrom(table,
                SubSeq(s, 1, p) \o <<a[start]>> \o SubSeq(s, p + 1, start - 1)
                    \o SubSeq(a, start + 1, Len(a)),
                start + 1)

BinaryInsertionSort(table, a) ==
    IF Len(a) < 2 THEN a
    ELSE LET descending == Cmp(table, a[2], a[1]) < 0
             run == RunEnd(table, a, descending, 2)
             b == IF descending
                  THEN Reverse(SubSeq(a, 1, run)) \o SubSeq(a, run + 1, Len(a))
                  ELSE a
         IN BinaryInsertFrom(table, b, run + 1)

\* a.sort(comparator) under the host's algorithm, for an array of sort
\* items in their original order
ArraySort(eng, comparator, a) ==
    LET table == CompareTable(comparator, a)
    IN CASE eng = "binaryInsertion" -> BinaryInsertionSort(table, a)
         [] OTHER -> SelectionSort(table, a)

(***************************************************************************)
(* The heap of arrays: a function from array names to their elements.      *)
(***************************************************************************)
\* A new array under `name`.
Alloc(heap, name, elems) ==
    [k \in DOMAIN heap \cup {name} |-> IF k = name THEN elems ELSE heap[k]]

\* heap[name].sort(comparator): in place
SortInPlace(heap, name, eng, comparator) ==
    [heap EXCEPT ![name] = ArraySort(eng, comparator, heap[name])]

\* The reversal of the array the caller passed.
ReverseTheInput(heap, name) == [heap EXCEPT !["data"] = Reverse(heap["data"])]

\* heap[name].reverse(): in place
ReverseInPlace(heap, name) == [heap EXCEPT ![name] = Reverse(heap[name])]

\* The arrays still referenced once the call has returned.
Collect(heap, names) == [k \in DOMAIN heap \cap names |-> heap[k]]

(***************************************************************************)
(* sortData                                                                *)
(***************************************************************************)
\* data.map((rowData, index) => ({rowData, index, sortValue}))
SortItems(column, data, columns) ==
    [i \in 1..Len(data) |->
        [rowData |-> data[i], index |-> i - 1,
         sortValue |-> getSortValue(column, data[i], i - 1, data, columns)]]

\* The callbacks that map invokes, row by row.
RECURSIVE InvokedBy(_, _)
InvokedBy(column, n) ==
    IF n = 0 THEN <<>>
    ELSE InvokedBy(column, n - 1) \o CallbacksOf(column, n - 1)

\* The type read whatever sortType says.
TypeOnly(column) == column.type

\* read the type from `sortType` if defined, otherwise use `type`
EffectiveType(column) ==
    IF column.sortType = NotSet THEN column.type ELSE column.sortType

NotFoundWarning(columnId) ==
    [kind |-> "No column found by ID", id |-> columnId, positions |-> <<>>]

\* data.map(...): the sort items, a new array
MapToSortItems(heap, column, columns) ==
    Alloc(heap, "sortItems", SortItems(column, heap.data, columns))

\* The rows but the last.
MapToRowsButLast(heap) ==
    Alloc(heap, "sortedData",
          [i \in 1..(Len(heap.sortItems) - 1) |-> heap.sortItems[i].rowData])

\* .map(sortItem => sortItem.rowData): the rows, a new array
MapToRows(heap) ==
    Alloc(heap, "sortedData",
          [i \in 1..Len(heap.sortItems) |-> heap.sortItems[i].rowData])

\* No reversal whatever the direction.
NeverReversed(heap, sortDirection) == heap

\* if (sortDirection === Descending) sortedData.reverse()
ReverseIfDescending(heap, sortDirection) ==
    IF sortDirection = SortDirection.Descending
    THEN ReverseInPlace(heap, "sortedData")
    ELSE heap

\* sortData once the column is found.
SortByColumn(heap, eng, column, sortDirection, columns) ==
    [ret |-> "sortedData",
     heap |-> Collect(
                ReverseIfDescending(
                    MapToRows(
                        SortInPlace(MapToSortItems(heap, column, columns),
                                    "sortItems", eng,
                                    getSortComparator(EffectiveType(column)))),
                    sortDirection),
                {"data", "sortedData"}),
     warnings |-> <<>>,
     invoked |-> InvokedBy(column, Len(heap.data))]

\* sortData after the lookup; found is what getColumnById returned.
SortDataFound(found, heap, eng, columnId, sortDirection, columns, production) ==
    IF Len(found) = 0
    THEN [ret |-> "data", heap |-> heap,
          warnings |-> IF production THEN <<>>
                       ELSE <<NotFoundWarning(columnId)>>,
          invoked |-> <<>>]
    ELSE SortByColumn(heap, eng, found[1], sortDirection, columns)

\* sortData(data, columnId, sortDirection, columns) on the heap: what it
\* returns, the heap it leaves, the warnings and the callbacks invoked.
sortData(heap, eng, columnId, sortDirection, columns, production) ==
    SortDataFound(getColumnById(columns, columnId), heap, eng, columnId,
                  sortDirection, columns, production)

(***************************************************************************)
(* validateColumns.  `ids` is a plain object: reading a key it does not    *)
(* own finds what Object.prototype has under that name.                    *)
(***************************************************************************)
ObjectPrototypeKeys ==
    {"constructor", "hasOwnProperty", "isPrototypeOf", "propertyIsEnumerable",
     "toLocaleString", "toString", "valueOf", "__proto__"}

\* The first loop: ids after the columns from position i on, or "TypeError"
\* when ids[id] is truthy and has no push.  own: the keys in insertion
\* order; at: the positions under each key.
RECURSIVE CollectIds(_, _, _)
CollectIds(columns, i, ids) ==
    IF i > Len(columns) THEN ids
    ELSE LET id == columns[i].id
         IN IF \E k \in 1..Len(ids.own) : ids.own[k] = id
            THEN CollectIds(columns, i + 1,
                     [ids EXCEPT !.at = [k \in 1..Len(ids.own) |->
                        IF ids.own[k] = id THEN Append(ids.at[k], i - 1)
                        ELSE ids.at[k]]])
            ELSE IF id \in ObjectPrototypeKeys
                 THEN [ids EXCEPT !.thrown = TRUE]
                 ELSE CollectIds(columns, i + 1,
                          [ids EXCEPT !.own = Append(ids.own, id),
                                      !.at = Append(ids.at, <<i - 1>>)])

\* The second loop: one warning per key with more than one position.
RECURSIVE DuplicateWarnings(_, _)
DuplicateWarnings(ids, k) ==
    IF k > Len(ids.own) THEN <<>>
    ELSE (IF Len(ids.at[k]) > 1
          THEN <<[kind |-> "Column ID used in multiple columns",
                  id |-> ids.own[k], positions |-> ids.at[k]]>>
          ELSE <<>>) \o DuplicateWarnings(ids, k + 1)

WarnOfIds(ids) ==
    IF ids.thrown THEN [thrown |-> TRUE, warnings |-> <<>>]
    ELSE [thrown |-> FALSE, warnings |-> DuplicateWarnings(ids, 1)]

\* validateColumns(columns); <<>> is an absent collection, <<columns>> one
\* that is given.
validateColumns(maybeColumns) ==
    IF maybeColumns = <<>> THEN [thrown |-> FALSE, warnings |-> <<>>]
    ELSE WarnOfIds(CollectIds(maybeColumns[1], 1,
                              [own |-> <<>>, at |-> <<>>, thrown |-> FALSE]))

(***************************************************************************)
(* The inputs of the model: row collections, column definitions.           *)
(***************************************************************************)
\* The values a row holds under key "a": undefined, null, two numbers, a
\* string with a numeric prefix, and two strings that differ in case only.
KeyPool ==
    {Undefined, Null, Num(1), Num(2), Str(<<"1", "a">>), Str(<<"a">>),
     Str(<<"A">>)}

Row(ref, v) == [ref |-> ref, fields |-> [a |-> v]]

\* Numbers and numerals among which < has a cycle: "2" < 3 and 3 < "10" as
\* numbers, "10" < "2" as strings.
MixedKeyPool == {Str(<<"2">>), Num(3), Str(<<"1", "0">>)}

\* The values of the rows that are sorted through accessors and by columns
\* that share ids.
PlainKeyPool == {Null, Num(1), Num(2), Str(<<"a">>)}

RowsOf(ks) == [i \in 1..Len(ks) |-> Row(i, ks[i])]

RowCollections ==
    {RowsOf(ks) : ks \in SeqsUpTo(KeyPool, MaxRows)}
        \cup {RowsOf(ks) : ks \in SeqsUpTo(MixedKeyPool, MaxMixedRows)}

PlainRowCollections == {RowsOf(ks) : ks \in SeqsUpTo(PlainKeyPool, MaxRows)}

NoFunction == [kind |-> NotSet, name |-> ""]

ValuePool ==
    {NoFunction, [kind |-> "key", name |-> "a"],
     [kind |-> "function", name |-> "reverseIndex"]}

SortValuePool == {NoFunction, [kind |-> "function", name |-> "negate"]}

TypePool ==
    {DataType.Number, DataType.NumberOrdinal, DataType.String, DataType.None}

ColumnIds == {"a", "x"}

\* A column definition with nothing but an id and a type.
PlainColumn(id, type) ==
    [id |-> id, type |-> type, sortType |-> NotSet,
     value |-> NoFunction, sortValue |-> NoFunction]

\* Columns over key "a": one of every type, and two whose sortType differs
\* from their type.
TypeColumns ==
    {PlainColumn("a", type) : type \in TypePool}
        \cup {[PlainColumn("a", DataType.String)
                 EXCEPT !.sortType = DataType.Number],
              [PlainColumn("a", DataType.Number)
                 EXCEPT !.sortType = DataType.String]}

\* Number columns with every accessor and sort-value function.
AccessColumns ==
    [id : ColumnIds, type : {DataType.Number}, sortType : {NotSet},
     value : ValuePool, sortValue : SortValuePool]

\* The columns of the collections with more than one column.
SharedColumns ==
    {PlainColumn("a", DataType.Number), PlainColumn("a", DataType.String),
     [id |-> "x", type |-> DataType.String, sortType |-> NotSet,
      value |-> [kind |-> "function", name |-> "reverseIndex"],
      sortValue |-> [kind |-> "function", name |-> "negate"]]}

\* The column collections validateColumns is called with.
ValidateIds == {"a", "b", "constructor"}

ValidateColumnSets ==
    SeqsUpTo({PlainColumn(id, DataType.None) : id \in ValidateIds}, MaxCols)

SortDirections == {SortDirection.Ascending, SortDirection.Descending}

(***************************************************************************)
(* The state machine: a caller makes a row collection, calls sortData with *)
(* it and takes the result, or calls validateColumns.                      *)
(***************************************************************************)
NoCall ==
    [op |-> "none", columnId |-> "", sortDirection |-> "", columns |-> <<>>,
     given |-> FALSE]

Init ==
    /\ engine \in Engines
    /\ input = <<>>
    /\ arrays = <<>>
    /\ pc = "idle"
    /\ call = NoCall
    /\ result = "none"
    /\ warnings = <<>>
    /\ invoked = <<>>

\* What a returning sortData leaves.
Returned(r) ==
    /\ arrays' = r.heap
    /\ result' = r.ret
    /\ warnings' = r.warnings
    /\ invoked' = r.invoked

SortDataCall(data, columnId, sortDirection, columns, production) ==
    /\ pc = "idle"
    /\ input' = data
    /\ Returned(sortData(Alloc(arrays, "data", data), engine, columnId,
                         sortDirection, columns, production))
    /\ call' = [op |-> "sortData", columnId |-> columnId,
                sortDirection |-> sortDirection, columns |-> columns,
                given |-> TRUE]
    /\ pc' = "returned"
    /\ UNCHANGED engine

\* What a returning or throwing validateColumns leaves.
Validated(r) ==
    /\ warnings' = r.warnings
    /\ pc' = IF r.thrown THEN "thrown" ELSE "returned"

ValidateColumnsCall(maybeColumns) ==
    /\ pc = "idle"
    /\ Validated(validateColumns(maybeColumns))
    /\ call' = [op |-> "validateColumns", columnId |-> "",
                sortDirection |-> "",
                columns |-> IF maybeColumns = <<>> THEN <<>>
                            ELSE maybeColumns[1],
                given |-> maybeColumns # <<>>]
    /\ result' = "none"
    /\ invoked' = <<>>
    /\ UNCHANGED <<engine, input, arrays>>

\* The caller drops the rows and the result and goes on.
Return ==
    /\ pc \in {"returned", "thrown"}
    /\ pc' = "idle"
    /\ input' = <<>>
    /\ arrays' = Collect(arrays, {})
    /\ call' = NoCall
    /\ result' = "none"
    /\ warnings' = <<>>
    /\ invoked' = <<>>
    /\ UNCHANGED engine

\* Sorting by the only column of a table, which has a type and may have a
\* sortType: the column is found, and NODE_ENV is not read.
SortBySingleColumn ==
    /\ pc = "idle"
    /\ \E data \in RowCollections, column \in TypeColumns,
          sortDirection \in SortDirections :
           SortDataCall(data, column.id, sortDirection, <<column>>, FALSE)

\* Sorting by the only column of a table, which may have a value and a
\* sortValue.
SortByAccessor ==
    /\ pc = "idle"
    /\ \E data \in PlainRowCollections, column \in AccessColumns,
          sortDirection \in SortDirections :
           SortDataCall(data, column.id, sortDirection, <<column>>, FALSE)

\* Sorting a table of two columns, whose ids may coincide, by any id, in a
\* development build.
SortByAnyId ==
    /\ pc = "idle"
    /\ \E data \in PlainRowCollections, columnId \in ColumnIds,
          first \in SharedColumns, second \in SharedColumns,
          sortDirection \in SortDirections :
           SortDataCall(data, columnId, sortDirection, <<first, second>>, FALSE)

\* Sorting by an id no column has, in either build.
SortByMissingId ==
    /\ pc = "idle"
    /\ \E data \in PlainRowCollections, column \in SharedColumns,
          sortDirection \in SortDirections, production \in BOOLEAN :
           SortDataCall(data, "missing", sortDirection, <<column>>, production)

ValidateGiven ==
    /\ pc = "idle"
    /\ \E cs \in ValidateColumnSets : ValidateColumnsCall(<<cs>>)

ValidateAbsent == ValidateColumnsCall(<<>>)

Next ==
    \/ SortBySingleColumn
    \/ SortByAccessor
    \/ SortByAnyId
    \/ SortByMissingId
    \/ ValidateGiven
    \/ ValidateAbsent
    \/ Return

Spec == Init /\ [][Next]_vars

(***************************************************************************)
(* What the properties speak of: the last call, the column it sorts by,    *)
(* the rows' sort keys, the rows' places in the result.                    *)
(***************************************************************************)
SortReturned == pc = "returned" /\ call.op = "sortData"

\* Some column of the call has the target id.
ColumnKnown == \E k \in 1..Len(call.columns) : call.columns[k].id = call.columnId

\* The first column that has the target id.
FirstMatch ==
    call.columns[CHOOSE k \in 1..Len(call.columns) :
                    /\ call.columns[k].id = call.columnId
                    /\ \A m \in 1..(k - 1) : call.columns[m].id # call.columnId]

Sorted == SortReturned /\ ColumnKnown

SortedAscending == Sorted /\ call.sortDirection = SortDirection.Ascending

SortedDescending == Sorted /\ call.sortDirection = SortDirection.Descending

\* The type the rows are to be compared by.
TypeOf(column) ==
    IF column.sortType # NotSet THEN column.sortType ELSE column.type

IsNumeric(type) == type \in {DataType.Number, DataType.NumberOrdinal}

\* The sort key of the row at place i of the input under a column: the cell
\* data, passed through sortValue when the column has one.
CellOf(column, i) ==
    CASE column.value.kind = "function" ->
           CallValue(column.value.name, input[i], i - 1, input, call.columns)
      [] column.value.kind = "key" -> Get(input[i], column.value.name)
      [] OTHER -> Get(input[i], column.id)

KeyOf(column, i) ==
    IF column.sortValue.kind = "function"
    THEN CallSortValue(column.sortValue.name, CellOf(column, i), input[i])
    ELSE CellOf(column, i)

Places == 1..Len(input)

\* The sort key of the row at place i of the input in the last call.
Key(i) == KeyOf(FirstMatch, i)

Keys == [i \in Places |-> Key(i)]

\* The array the last call returned.
Out == arrays[result]

\* The place in the result of the row that is at place i of the input.
Place(i) == CHOOSE p \in 1..Len(Out) : Out[p].ref = input[i].ref

Placement == [i \in Places |-> Place(i)]

\* Two keys that are to be tied under a type.
EqualKeys(type, k1, k2) ==
    \/ IsNullish(k1) /\ IsNullish(k2)
    \/ /\ ~IsNullish(k1)
       /\ ~IsNullish(k2)
       /\ CASE IsNumeric(type) ->
                 ParseFloat(k1).t = "number" /\ ParseFloat(k1) = ParseFloat(k2)
            [] type = DataType.String ->
                 ToLowerCase(StringOf(k1)) = ToLowerCase(StringOf(k2))
            [] OTHER -> StrictEquals(k1, k2)

\* A key that is to come strictly before another under a type.
KeyBefore(type, k1, k2) ==
    CASE IsNumeric(type) ->
           \/ ~IsNullish(k1) /\ IsNullish(k2)
           \/ /\ ~IsNullish(k1)
              /\ ~IsNullish(k2)
              /\ NumberLess(ParseFloat(k1), ParseFloat(k2))
      [] type = DataType.String ->
           \/ IsNullish(k1) /\ ~IsNullish(k2)
           \/ /\ ~IsNullish(k1)
              /\ ~IsNullish(k2)
              /\ LocaleCompare(ToLowerCase(StringOf(k1)),
                               ToLowerCase(StringOf(k2))) < 0
      [] OTHER ->
           \/ IsNullish(k1) /\ ~IsNullish(k2)
           \/ ~IsNullish(k1) /\ ~IsNullish(k2) /\ JSLess(k1, k2)

\* Keys that can be compared with one another under a type: numeric keys
\* all parse to numbers, generic keys are all numbers or all strings.
ComparableKeys(type, keys) ==
    CASE IsNumeric(type) ->
           \A i \in DOMAIN keys :
               IsNullish(keys[i]) \/ ParseFloat(keys[i]).t = "number"
      [] type = DataType.String -> TRUE
      [] OTHER ->
           \/ \A i \in DOMAIN keys : IsNullish(keys[i]) \/ keys[i].t = "number"
           \/ \A i \in DOMAIN keys : IsNullish(keys[i]) \/ keys[i].t = "string"

\* The keys of the last call can be compared with one another.
Comparable == ComparableKeys(TypeOf(FirstMatch), Keys)

\* Rows with tied keys are placed in their original order.
InOriginalOrder(type, keys, place) ==
    \A i, j \in DOMAIN keys :
        i < j /\ EqualKeys(type, keys[i], keys[j]) => place[i] < place[j]

TiesInOriginalOrder == InOriginalOrder(TypeOf(FirstMatch), Keys, Placement)

NullsPlaced(type, keys, place) ==
    \A i, j \in DOMAIN keys :
        IsNullish(keys[i]) /\ ~IsNullish(keys[j]) =>
            IF IsNumeric(type) THEN place[j] < place[i]
            ELSE place[i] < place[j]

C2_NullPolicy ==
    SortedAscending => NullsPlaced(TypeOf(FirstMatch), Keys, Placement)

\* A null key first in a numeric sort, and a null key last in another.
C2_Witness ==
    /\ SortedAscending
    /\ Len(input) = 3
    /\ TypeOf(FirstMatch) \in {DataType.NumberOrdinal, DataType.None}
    /\ Key(2).t = "string"
    /\ IF IsNumeric(TypeOf(FirstMatch))
       THEN IsNullish(Key(1)) /\ ~IsNullish(Key(3)) /\ Place(1) = 3
       ELSE IsNullish(Key(3)) /\ ~IsNullish(Key(1)) /\ Place(3) = 1

(***************************************************************************)
(* C3: a descending sort returns the ascending result of the same call     *)
(* reversed element by element, so rows with equal keys come in the        *)
(* reverse of their original order.                                        *)
(***************************************************************************)
\* What the same call returns when the direction is Ascending.
AscendingResult ==
    sortData([k \in {"data"} |-> input], engine, call.columnId,
             SortDirection.Ascending, call.columns, FALSE).heap.sortedData

InReverseOrder(type, keys, place) ==
    \A i, j \in DOMAIN keys :
        i < j /\ EqualKeys(type, keys[i], keys[j]) => place[i] > place[j]

TiesInReverseOrder == InReverseOrder(TypeOf(FirstMatch), Keys, Placement)

C4_UnknownColumn ==
    SortReturned /\ ~ColumnKnown =>
        /\ result = "data"
        /\ arrays.data = input
        /\ DOMAIN arrays = {"data"}
        /\ invoked = <<>>

\* An unknown id, for columns that have callbacks and rows out of order.
C4_Witness ==
    /\ SortReturned
    /\ ~ColumnKnown
    /\ call.sortDirection = SortDirection.Descending
    /\ Len(call.columns) = 2
    /\ \E k \in 1..Len(call.columns) : call.columns[k].value.kind = "function"
    /\ Len(input) = 3
    /\ input[1].fields.a = Num(2) /\ input[2].fields.a = Num(1)
    /\ Out = input

(***************************************************************************)
(* C5: sortData never mutates its input; the result of a call that finds   *)
(* the column is a new array, so the reversal leaves the input in order.   *)
(***************************************************************************)
C5_InputNotMutated ==
    SortReturned =>
        /\ arrays.data = input
        /\ ColumnKnown => result = "sortedData" /\ DOMAIN arrays = {"data", "sortedData"}

\* A descending sort whose result is not in the input's order.
C5_Witness ==
    /\ SortedDescending
    /\ Len(input) = 3
    /\ Out # input
    /\ Out = Reverse(input)
    /\ arrays.data = input


(***************************************************************************)
(* C6: the comparator never reports a tie for two items with distinct      *)
(* indices, is antisymmetric and transitive, so every sorting algorithm    *)
(* gives the same ascending order.                                         *)
(***************************************************************************)
\* The sort items of the last call.
Items == SortItems(FirstMatch, input, call.columns)

\* What the comparator of the last call says of each two items.
Compared == CompareTable(getSortComparator(TypeOf(FirstMatch)), Items)

TotalOrder(cmp) ==
    /\ \A i, j \in DOMAIN cmp : i # j => cmp[i][j] # 0
    /\ \A i, j \in DOMAIN cmp : cmp[i][j] < 0 <=> cmp[j][i] > 0
    /\ \A i, j, k \in DOMAIN cmp :
          cmp[i][j] < 0 /\ cmp[j][k] < 0 => cmp[i][k] < 0

RowsOfItems(items) == [p \in DOMAIN items |-> items[p].rowData]

\* The rows of sort items in the order an engine puts them in.
RowsSortedWith(eng, comparator, items) ==
    RowsOfItems(ArraySort(eng, comparator, items))

SameUnderEveryEngine(out, comparator, items) ==
    \A eng \in Engines : out = RowsSortedWith(eng, comparator, items)

C6_TotalOrder ==
    SortedAscending =>
        /\ TotalOrder(Compared)
        /\ SameUnderEveryEngine(Out, getSortComparator(TypeOf(FirstMatch)),
                                Items)

\* C6 as amended: so it is for keys that can be compared with one another.
C6_TotalOrderComparable ==
    SortedAscending /\ Comparable =>
        /\ TotalOrder(Compared)
        /\ SameUnderEveryEngine(Out, getSortComparator(TypeOf(FirstMatch)),
                                Items)

\* Three rows with a number, a numeral of a lesser number and that number,
\* sorted by a non-stable algorithm into an order that is not the input's.
C6_Witness ==
    /\ SortedAscending
    /\ engine = "selection"
    /\ Len(input) = 3
    /\ IsNumeric(TypeOf(FirstMatch))
    /\ Key(1) = Num(2) /\ Key(2) = Str(<<"1", "a">>) /\ Key(3) = Num(1)
    /\ Comparable
    /\ Place(2) = 1 /\ Place(3) = 2 /\ Place(1) = 3

(***************************************************************************)
(* C7: an ascending sort lists the rows in nondecreasing order of their    *)
(* sort keys, the sort key being sortValue(cellData, rowData) when the     *)
(* column has a sortValue and the cell data otherwise; a Number column     *)
(* without value and sortValue over non-null numbers is sorted by the raw  *)
(* numbers under its id.                                                   *)
(***************************************************************************)
NondecreasingKeys(type, keys, place) ==
    \A i, j \in DOMAIN keys :
        place[i] < place[j] => ~KeyBefore(type, keys[j], keys[i])

Nondecreasing == NondecreasingKeys(TypeOf(FirstMatch), Keys, Placement)

RawNumbers ==
    /\ TypeOf(FirstMatch) = DataType.Number
    /\ FirstMatch.value.kind = NotSet
    /\ FirstMatch.sortValue.kind = NotSet
    /\ \A i \in Places : Get(input[i], FirstMatch.id).t = "number"

SortedByRawNumbers ==
    \A p, q \in 1..Len(Out) :
        p < q => Get(Out[p], FirstMatch.id).n <= Get(Out[q], FirstMatch.id).n

C7_Ordered ==
    SortedAscending => Nondecreasing /\ (RawNumbers => SortedByRawNumbers)

\* C7 as amended: so it is for keys that can be compared with one another.
C7_OrderedComparable ==
    SortedAscending =>
        /\ Comparable => Nondecreasing
        /\ RawNumbers => SortedByRawNumbers

\* A column read through another key and a sortValue that turns the order
\* of the numbers around.
C7_Witness ==
    /\ SortedAscending
    /\ FirstMatch.id = "x"
    /\ FirstMatch.value.kind = "key"
    /\ FirstMatch.sortValue.kind = "function"
    /\ Len(input) = 3
    /\ input[1].fields.a = Num(1) /\ input[2].fields.a = Num(2)
    /\ input[3].fields.a = Num(1)
    /\ Key(2) = Num(-2)
    /\ Comparable
    /\ Place(2) = 1 /\ Place(1) = 2 /\ Place(3) = 3

(***************************************************************************)
(* C8: validateColumns warns once for each id that more than one column    *)
(* has, naming the id and the places of those columns, warns of no other   *)
(* id, never throws, and does nothing for an absent collection.            *)
(***************************************************************************)
ValidateDone == call.op = "validateColumns" /\ pc # "idle"

PlacesOfId(id) == {k \in 1..Len(call.columns) : call.columns[k].id = id}

DuplicatedIds ==
    {call.columns[k].id : k \in {m \in 1..Len(call.columns) :
                                   Cardinality(PlacesOfId(call.columns[m].id)) > 1}}

C8_ValidateColumns ==
    ValidateDone =>
        /\ pc = "returned"
        /\ \A id \in DuplicatedIds :
              Cardinality({w \in 1..Len(warnings) : warnings[w].id = id}) = 1
        /\ \A w \in 1..Len(warnings) :
              /\ warnings[w].id \in DuplicatedIds
              /\ {warnings[w].positions[p] + 1 :
                    p \in 1..Len(warnings[w].positions)}
                   = PlacesOfId(warnings[w].id)
        /\ ~call.given => warnings = <<>>

(***************************************************************************)
(* C9: the rows are compared by the column's sortType when it is set and   *)
(* by its type otherwise, and by the first column that has the target id.  *)
(***************************************************************************)
\* The rows of the input sorted by a column's keys under a type.
InDirection(rows, sortDirection) ==
    IF sortDirection = SortDirection.Descending THEN Reverse(rows) ELSE rows

RowsSortedBy(column, type, sortDirection) ==
    InDirection(RowsSortedWith(engine, getSortComparator(type),
                               SortItems(column, input, call.columns)),
                sortDirection)

\* Under Number, nulls are last and lesser numbers first.
NumberOrder(keys, place) ==
    \A i, j \in DOMAIN keys :
        /\ IsNullish(keys[i]) /\ ~IsNullish(keys[j]) => place[j] < place[i]
        /\ (/\ ~IsNullish(keys[i])
            /\ ~IsNullish(keys[j])
            /\ ComparableKeys(DataType.Number, keys)
            /\ NumberLess(ParseFloat(keys[i]), ParseFloat(keys[j])))
             => place[i] < place[j]

C9_EffectiveType ==
    Sorted =>
        /\ Out = RowsSortedBy(FirstMatch,
                              IF FirstMatch.sortType # NotSet
                              THEN FirstMatch.sortType ELSE FirstMatch.type,
                              call.sortDirection)
        /\ (FirstMatch.type = DataType.String
                /\ FirstMatch.sortType = DataType.Number
                /\ call.sortDirection = SortDirection.Ascending)
            => NumberOrder(Keys, Placement)

\* A String column sorted as Number: the null key is last and 2 comes after
\* "1a", which a String sort would have put the other way round.
C9_Witness ==
    /\ SortedAscending
    /\ FirstMatch.type = DataType.String
    /\ FirstMatch.sortType = DataType.Number
    /\ Len(input) = 3
    /\ Key(1) = Null /\ Key(2) = Num(2) /\ Key(3) = Str(<<"1", "a">>)
    /\ Place(3) = 1 /\ Place(2) = 2 /\ Place(1) = 3

(***************************************************************************)
(* C10: the result of sortData is a permutation of the input rows: as long *)
(* as the input, each row in it as often as in the input.                  *)
(***************************************************************************)
Count(s, x) == Cardinality({p \in 1..Len(s) : s[p] = x})

C10_Permutation ==
    SortReturned =>
        /\ Len(Out) = Len(input)
        /\ \A i \in Places : Count(Out, input[i]) = Count(input, input[i])

\* A sort of three rows that moves every row.
C10_Witness ==
    /\ Sorted
    /\ Len(input) = 3
    /\ \A i \in Places : Place(i) # i

====
